---- MODULE Spec2Model ----
(***************************************************************************)
(* CareerCompass: the three-stage assistant pipeline                       *)
(*   domain_reasoning -> recommendation -> compile_response -> END         *)
(* (src/graph/workflow.py) over the shared AssistantState                  *)
(* (src/state/schema.py).                                                  *)
(*                                                                         *)
(* Text is a sequence of one-character strings, so that lower-casing,      *)
(* substring tests, strip and concatenation are computed and not assumed.  *)
(* The element "U+2014" stands for the em dash of the Coordinator's text.  *)
(* A float is an integer number of hundredths (0.67 is 67).                *)
(* A Python/JSON value is a record tagged by `kind`, with one payload     *)
(* field named after the kind.                                             *)
(***************************************************************************)
EXTENDS Integers, Sequences, FiniteSets, TLC

VARIABLES pc, state, calls, executed, raised, replies, recBranch, coordBranch

vars == <<pc, state, calls, executed, raised, replies, recBranch, coordBranch>>

(***************************************************************************)
(* Python / JSON values                                                    *)
(***************************************************************************)
None == [kind |-> "null"]

JBool(b) == [kind |-> "bool", bool |-> b]

JNum(n) == [kind |-> "num", num |-> n]

JStr(s) == [kind |-> "str", str |-> s]

JList(l) == [kind |-> "list", items |-> l]

JDict(d) == [kind |-> "dict", map |-> d]

\* A key the backend left out of its JSON object.
Absent == [kind |-> "absent"]

\* The JSON object with the fields of r that are not Absent.
MkDict(r) == JDict([k \in {j \in DOMAIN r : r[j].kind # "absent"} |-> r[k]])

\* Python truth value of v (bool(v)).
Truthy(v) ==
    CASE v.kind = "null" -> FALSE
      [] v.kind = "bool" -> v.bool
      [] v.kind = "num"  -> v.num # 0
      [] v.kind = "str"  -> Len(v.str) > 0
      [] v.kind = "list" -> Len(v.items) > 0
      [] v.kind = "dict" -> DOMAIN v.map # {}

\* a or b
PyOr(a, b) == IF Truthy(a) THEN a ELSE b

\* d.get(k, default) on a dict d
Get(d, k, default) == IF k \in DOMAIN d.map THEN d.map[k] ELSE default

(***************************************************************************)
(* Text                                                                    *)
(***************************************************************************)
UpperChars == <<"A","B","C","D","E","F","G","H","I","J","K","L","M","N","O","P","Q","R","S","T","U","V","W","X","Y","Z">>

LowerChars == <<"a","b","c","d","e","f","g","h","i","j","k","l","m","n","o","p","q","r","s","t","u","v","w","x","y","z">>

LowerChar(c) ==
    IF \E i \in 1..Len(UpperChars) : UpperChars[i] = c
    THEN LowerChars[CHOOSE i \in 1..Len(UpperChars) : UpperChars[i] = c]
    ELSE c

\* str.lower()
Lower(s) == [i \in 1..Len(s) |-> LowerChar(s[i])]

\* sub in s
Contains(s, sub) ==
    \E i \in 0..(Len(s) - Len(sub)) : SubSeq(s, i + 1, i + Len(sub)) = sub

\* any(kw in s for kw in kws)
ContainsAny(s, kws) == \E i \in 1..Len(kws) : Contains(s, kws[i])

Whitespace == {" ", "\n", "\t", "\r"}

\* str.strip()
Strip(s) ==
    LET keep == {i \in 1..Len(s) : s[i] \notin Whitespace}
    IN IF keep = {} THEN <<>>
       ELSE SubSeq(s, CHOOSE i \in keep : \A j \in keep : i <= j,
                      CHOOSE i \in keep : \A j \in keep : i >= j)

Digits == <<"0","1","2","3","4","5","6","7","8","9">>

IsDigit(c) == \E i \in 1..Len(Digits) : Digits[i] = c

DigitVal(c) == (CHOOSE i \in 1..Len(Digits) : Digits[i] = c) - 1

RECURSIVE DigitsVal(_)
DigitsVal(s) == IF s = <<>> THEN 0 ELSE 10 * DigitsVal(SubSeq(s, 1, Len(s) - 1)) + DigitVal(s[Len(s)])

\* float(s) for a str s, in hundredths: the decimal forms "d", "d.d" and
\* "d.dd" convert, any other text of the model's inputs raises ValueError.
IsDecimal(s) ==
    /\ Len(s) > 0
    /\ \A i \in 1..Len(s) : IsDigit(s[i]) \/ s[i] = "."
    /\ Cardinality({i \in 1..Len(s) : s[i] = "."}) <= 1
    /\ IsDigit(s[1])
    /\ \A i \in 1..Len(s) : s[i] = "." => (Len(s) - i) \in 1..2

DecimalVal(s) ==
    IF \E i \in 1..Len(s) : s[i] = "."
    THEN LET p == CHOOSE i \in 1..Len(s) : s[i] = "."
             frac == SubSeq(s, p + 1, Len(s))
         IN 100 * DigitsVal(SubSeq(s, 1, p - 1))
            + (IF Len(frac) = 1 THEN 10 * DigitsVal(frac) ELSE DigitsVal(frac))
    ELSE 100 * DigitsVal(s)

\* float(v): [exc, val]
PyFloat(v) ==
    CASE v.kind = "num"  -> [exc |-> "none", val |-> v.num]
      [] v.kind = "bool" -> [exc |-> "none", val |-> IF v.bool THEN 100 ELSE 0]
      [] v.kind = "str"  -> IF IsDecimal(v.str)
                            THEN [exc |-> "none", val |-> DecimalVal(v.str)]
                            ELSE [exc |-> "ValueError", val |-> 0]
      [] OTHER           -> [exc |-> "TypeError", val |-> 0]

\* min(a, b)
Min(a, b) == IF b < a THEN b ELSE a

(***************************************************************************)
(* AssistantState (src/state/schema.py)                                    *)
(***************************************************************************)
OptionalFields ==
    {"interpreted_goal", "extracted_constraints", "missing_information",
     "confidence_score", "decision_type", "recommendations", "final_response"}

\* AssistantState(user_input=query)
AssistantState(query) ==
    [user_input            |-> JStr(query),
     interpreted_goal      |-> None,
     extracted_constraints |-> None,
     missing_information   |-> None,
     confidence_score      |-> None,
     decision_type         |-> None,
     recommendations       |-> None,
     final_response        |-> None]

IsStr(v) == v.kind = "str"

IsOptionalStr(v) == v.kind \in {"null", "str"}

IsOptionalStrList(v) ==
    \/ v.kind = "null"
    \/ v.kind = "list" /\ \A i \in 1..Len(v.items) : v.items[i].kind = "str"

\* AssistantState.model_validate(state_dict): TRUE iff the dict validates.
model_validate(st) ==
    /\ IsStr(st.user_input)
    /\ IsOptionalStr(st.interpreted_goal)
    /\ IsOptionalStrList(st.extracted_constraints)
    /\ IsOptionalStrList(st.missing_information)
    /\ st.confidence_score.kind \in {"null", "num"}
    /\ IsOptionalStr(st.decision_type)
    /\ st.recommendations.kind \in {"null", "dict"}
    /\ IsOptionalStr(st.final_response)

\* state.model_copy(update=upd)
model_copy(st, upd) == [f \in DOMAIN st |-> IF f \in DOMAIN upd THEN upd[f] ELSE st[f]]

(***************************************************************************)
(* The completion backend (_llm.invoke) and json.loads                     *)
(***************************************************************************)
\* A reply is a transport failure or a text.  A text that json.loads
\* rejects is NonJson(text); a text that it accepts is written as the value
\* it parses to.
TransportError == [kind |-> "transport_error"]

NonJson(text) == [kind |-> "nonjson", text |-> text]

\* json.loads(content): [exc, val]
json_loads(content) ==
    IF content.kind = "nonjson"
    THEN [exc |-> "JSONDecodeError", val |-> None]
    ELSE [exc |-> "none", val |-> content]

(***************************************************************************)
(* Domain Reasoning stage (src/agents/domain_reasoning.py)                 *)
(***************************************************************************)
\* explicit_keywords, in the dict's insertion order
ConstraintCategories == <<"time", "budget", "experience", "priority", "interest", "skill_gap">>

explicit_keywords ==
    [time       |-> <<<<"l","i","m","i","t","e","d"," ","t","i","m","e">>, <<"s","h","o","r","t"," ","o","n"," ","t","i","m","e">>, <<"u","r","g","e","n","t">>, <<"d","e","a","d","l","i","n","e">>, <<"s","o","o","n">>>>,
     budget     |-> <<<<"l","i","m","i","t","e","d"," ","b","u","d","g","e","t">>, <<"c","a","n","'","t"," ","a","f","f","o","r","d">>, <<"c","h","e","a","p">>, <<"f","r","e","e">>>>,
     experience |-> <<<<"b","e","g","i","n","n","e","r">>, <<"j","u","s","t"," ","s","t","a","r","t","i","n","g">>, <<"n","o"," ","e","x","p","e","r","i","e","n","c","e">>, <<"n","e","w"," ","t","o">>>>,
     priority   |-> <<<<"n","e","e","d"," ","a"," ","j","o","b">>, <<"j","o","b"," ","p","r","i","o","r","i","t","y">>, <<"e","m","p","l","o","y","m","e","n","t">>, <<"u","r","g","e","n","t">>>>,
     interest   |-> <<<<"l","o","v","e">>, <<"p","a","s","s","i","o","n">>, <<"i","n","t","e","r","e","s","t","e","d"," ","i","n">>, <<"e","n","j","o","y">>>>,
     skill_gap  |-> <<<<"d","o","n","'","t"," ","k","n","o","w">>, <<"u","n","f","a","m","i","l","i","a","r">>, <<"n","e","v","e","r"," ","l","e","a","r","n","e","d">>>>]

\* The category names as text, as they are stored in extracted_constraints.
CategoryText ==
    [time       |-> <<"t","i","m","e">>,
     budget     |-> <<"b","u","d","g","e","t">>,
     experience |-> <<"e","x","p","e","r","i","e","n","c","e">>,
     priority   |-> <<"p","r","i","o","r","i","t","y">>,
     interest   |-> <<"i","n","t","e","r","e","s","t">>,
     skill_gap  |-> <<"s","k","i","l","l","_","g","a","p">>]

\* An extraction that forgets to lower-case the input.
_extract_explicit_constraints_no_lower(user_input) ==
    LET found == SelectSeq(ConstraintCategories,
                           LAMBDA category : ContainsAny(user_input, explicit_keywords[category]))
    IN [i \in 1..Len(found) |-> JStr(CategoryText[found[i]])]

_extract_explicit_constraints(user_input) ==
    LET user_lower == Lower(user_input)
        found == SelectSeq(ConstraintCategories,
                           LAMBDA category : ContainsAny(user_lower, explicit_keywords[category]))
    IN [i \in 1..Len(found) |-> JStr(CategoryText[found[i]])]

context_keywords ==
    <<<<"f","i","r","s","t"," ","y","e","a","r">>, <<"s","e","c","o","n","d"," ","y","e","a","r">>, <<"t","h","i","r","d"," ","y","e","a","r">>, <<"f","o","u","r","t","h"," ","y","e","a","r">>,
      <<"f","r","e","s","h","m","a","n">>, <<"s","o","p","h","o","m","o","r","e">>, <<"j","u","n","i","o","r">>, <<"s","e","n","i","o","r">>,
      <<"y","e","a","r"," ","1">>, <<"y","e","a","r"," ","2">>, <<"y","e","a","r"," ","3">>, <<"y","e","a","r"," ","4">>,
      <<"e","x","p","e","r","i","e","n","c","e">>, <<"w","o","r","k","e","d"," ","w","i","t","h">>, <<"b","u","i","l","t"," ","w","i","t","h">>, <<"u","s","e","d">>, <<"f","a","m","i","l","i","a","r"," ","w","i","t","h">>, <<"s","t","u","d","i","e","d">>,
      <<"p","y","t","h","o","n">>, <<"j","a","v","a","s","c","r","i","p","t">>, <<"j","a","v","a">>, <<"c","+","+">>, <<"r","e","a","c","t">>, <<"d","j","a","n","g","o">>, <<"n","o","d","e","j","s">>,
      <<"s","q","l">>, <<"d","a","t","a","b","a","s","e","s">>, <<"a","p","i">>, <<"a","w","s">>, <<"c","l","o","u","d">>,
      <<"c","u","r","r","e","n","t","l","y">>, <<"d","o","i","n","g">>, <<"w","o","r","k","i","n","g"," ","o","n">>, <<"t","a","k","i","n","g">>, <<"c","o","u","r","s","e">>>>

_has_background_context(user_input) == ContainsAny(Lower(user_input), context_keywords)

COMPARISON == <<"c","o","m","p","a","r","i","s","o","n">>

DIRECT_PATH == <<"d","i","r","e","c","t","_","p","a","t","h">>

\* The confidence cap of a comparison without background context: 0.67
ConfidenceCap == 67

\* An adjustment that forgets to look at the decision type.
_adjust_confidence_any_type(confidence, decision_type, user_input) ==
    IF ~_has_background_context(user_input)
    THEN Min(confidence, ConfidenceCap)
    ELSE confidence

\* An adjustment whose context test is inverted.
_adjust_confidence_inverted(confidence, decision_type, user_input) ==
    IF decision_type # COMPARISON
    THEN confidence
    ELSE IF _has_background_context(user_input)
         THEN Min(confidence, ConfidenceCap)
         ELSE confidence

_adjust_confidence_for_comparison(confidence, decision_type, user_input) ==
    IF decision_type # COMPARISON
    THEN confidence
    ELSE IF ~_has_background_context(user_input)
         THEN Min(confidence, ConfidenceCap)
         ELSE confidence

\* A keyword list whose "or" has lost its surrounding blanks.
comparison_keywords_bare_or == <<<<"o","r">>, <<"v","s">>, <<"w","h","i","c","h">>, <<"b","e","t","t","e","r">>, <<"c","o","m","p","a","r","e">>>>

comparison_keywords == <<<<" ","o","r"," ">>, <<"v","s">>, <<"w","h","i","c","h">>, <<"b","e","t","t","e","r">>, <<"c","o","m","p","a","r","e">>>>

UNABLE_TO_PARSE_GOAL == <<"U","n","a","b","l","e"," ","t","o"," ","p","a","r","s","e"," ","s","t","u","d","e","n","t"," ","g","o","a","l",".">>

PLEASE_RESTATE == <<"P","l","e","a","s","e"," ","r","e","s","t","a","t","e"," ","y","o","u","r"," ","q","u","e","s","t","i","o","n"," ","c","l","e","a","r","l","y",".">>

\* A fallback that keeps the default confidence of a reply without a score.
DomainFallback_DefaultConfidence ==
    JDict([interpreted_goal      |-> JStr(UNABLE_TO_PARSE_GOAL),
           extracted_constraints |-> JList(<<>>),
           missing_information   |-> JList(<<JStr(PLEASE_RESTATE)>>),
           confidence_score      |-> JNum(50)])

\* The parsed value substituted when the reply is not JSON.
DomainFallback ==
    JDict([interpreted_goal      |-> JStr(UNABLE_TO_PARSE_GOAL),
           extracted_constraints |-> JList(<<>>),
           missing_information   |-> JList(<<JStr(PLEASE_RESTATE)>>),
           confidence_score      |-> JNum(30)])

\* A classification of the student's own words instead of the interpreted goal.
ClassifiedText_UserInput(parsed, user_input) == JStr(user_input)

\* The text classified by run_domain_reasoning: parsed.get("interpreted_goal", "")
ClassifiedText(parsed, user_input) == Get(parsed, "interpreted_goal", JStr(<<>>))

\* decision_type of a lower-cased text
Classify(text_lower) ==
    IF ContainsAny(text_lower, comparison_keywords) THEN COMPARISON ELSE DIRECT_PATH

\* run_domain_reasoning(state) when the backend answers `reply`:
\* [exc, state], exc = "none" when the stage returns.
run_domain_reasoning(st, reply) ==
    LET active_input == st.user_input.str
        loaded == json_loads(reply)
        parsed == IF loaded.exc = "JSONDecodeError" THEN DomainFallback ELSE loaded.val
    IN
    IF reply.kind = "transport_error" THEN [exc |-> "TransportError", state |-> st]
    ELSE IF parsed.kind # "dict" THEN [exc |-> "AttributeError", state |-> st]
    ELSE
    LET goal == ClassifiedText(parsed, active_input)
    IN
    IF goal.kind # "str" THEN [exc |-> "AttributeError", state |-> st]
    ELSE
    LET decision_type == Classify(Lower(goal.str))
        explicit_constraints == _extract_explicit_constraints(active_input)
        original_confidence == PyFloat(Get(parsed, "confidence_score", JNum(50)))
    IN
    IF original_confidence.exc # "none" THEN [exc |-> original_confidence.exc, state |-> st]
    ELSE
    LET adjusted_confidence ==
            _adjust_confidence_for_comparison(original_confidence.val, decision_type, active_input)
    IN [exc   |-> "none",
        state |-> model_copy(st,
                    [interpreted_goal      |-> Get(parsed, "interpreted_goal", None),
                     extracted_constraints |-> JList(explicit_constraints),
                     missing_information   |-> Get(parsed, "missing_information", JList(<<>>)),
                     confidence_score      |-> JNum(adjusted_confidence),
                     decision_type         |-> JStr(decision_type)])]

(***************************************************************************)
(* Recommendation stage (src/agents/recommendation.py)                     *)
(***************************************************************************)
required_keys == {"strategy", "exploration_plan", "decision_criteria", "final_suggestion", "resources"}

\* The keys the direct-path prompt asks for.
direct_keys == {"primary_path", "secondary_path", "reasoning", "immediate_next_steps", "resources"}

_comparison_fallback(goal) ==
    JDict([strategy |-> JStr(<<"e","x","p","l","o","r","a","t","i","o","n","_","e","x","p","e","r","i","m","e","n","t">>),
           exploration_plan |-> JList(<<
               JDict([week  |-> JNum(100),
                      focus |-> JStr(<<"B","a","c","k","e","n","d"," ","D","e","v","e","l","o","p","m","e","n","t">>),
                      task  |-> JStr(<<"B","u","i","l","d"," ","a"," ","s","m","a","l","l"," ","R","E","S","T"," ","A","P","I"," ","u","s","i","n","g"," ","F","a","s","t","A","P","I"," ","w","i","t","h"," ","a","u","t","h","e","n","t","i","c","a","t","i","o","n"," ","a","n","d"," ","d","a","t","a","b","a","s","e"," ","i","n","t","e","g","r","a","t","i","o","n",".">>)]),
               JDict([week  |-> JNum(200),
                      focus |-> JStr(<<"M","a","c","h","i","n","e"," ","L","e","a","r","n","i","n","g">>),
                      task  |-> JStr(<<"B","u","i","l","d"," ","a"," ","s","m","a","l","l"," ","e","n","d","-","t","o","-","e","n","d"," ","M","L"," ","c","l","a","s","s","i","f","i","c","a","t","i","o","n"," ","p","r","o","j","e","c","t"," ","a","n","d"," ","e","x","p","o","s","e"," ","i","t"," ","v","i","a"," ","a"," ","s","i","m","p","l","e"," ","A","P","I",".">>)])>>),
           decision_criteria |-> JList(<<
               JStr(<<"W","h","i","c","h"," ","w","o","r","k"," ","f","e","l","t"," ","m","o","r","e"," ","e","n","g","a","g","i","n","g","?">>),
               JStr(<<"W","h","i","c","h"," ","l","e","a","r","n","i","n","g"," ","c","u","r","v","e"," ","f","e","l","t"," ","s","u","s","t","a","i","n","a","b","l","e","?">>),
               JStr(<<"W","h","i","c","h"," ","t","y","p","e"," ","o","f"," ","p","r","o","b","l","e","m","-","s","o","l","v","i","n","g"," ","e","x","c","i","t","e","d"," ","y","o","u"," ","m","o","r","e","?">>)>>),
           final_suggestion |-> JStr(<<"C","h","o","o","s","e"," ","t","h","e"," ","p","a","t","h"," ","t","h","a","t"," ","m","a","i","n","t","a","i","n","s"," ","y","o","u","r"," ","l","o","n","g","-","t","e","r","m"," ","c","u","r","i","o","s","i","t","y"," ","a","f","t","e","r"," ","h","a","n","d","s","-","o","n"," ","e","x","p","l","o","r","a","t","i","o","n",".">>),
           resources |-> JList(<<
               JStr(<<"F","a","s","t","A","P","I"," ","o","f","f","i","c","i","a","l"," ","d","o","c","u","m","e","n","t","a","t","i","o","n">>),
               JStr(<<"S","c","i","k","i","t","-","l","e","a","r","n"," ","d","o","c","u","m","e","n","t","a","t","i","o","n">>),
               JStr(<<"A","n","d","r","e","w"," ","N","g"," ","M","a","c","h","i","n","e"," ","L","e","a","r","n","i","n","g"," ","C","o","u","r","s","e">>)>>)])

\* The validation without its empty-plan check.
ComparisonSchemaOk_NoPlanCheck(recommendations) ==
    /\ recommendations.kind = "dict"
    /\ required_keys \subseteq DOMAIN recommendations.map

\* The validation without its required-keys check.
ComparisonSchemaOk_NoKeyCheck(recommendations) ==
    /\ recommendations.kind = "dict"
    /\ Truthy(Get(recommendations, "exploration_plan", None))

\* The schema validation of the comparison branch: TRUE iff the parsed
\* value is returned as it is.
ComparisonSchemaOk(recommendations) ==
    /\ recommendations.kind = "dict"
    /\ required_keys \subseteq DOMAIN recommendations.map
    /\ Truthy(Get(recommendations, "exploration_plan", None))

\* A generator that repairs a mapping failing the validation by filling it
\* up from the fallback, instead of replacing it.
_generate_comparison_recommendation_repairs(goal, reply) ==
    LET loaded == json_loads(reply)
    IN IF reply.kind = "transport_error" THEN [exc |-> "TransportError", val |-> None]
       ELSE IF loaded.exc = "JSONDecodeError" THEN [exc |-> "none", val |-> _comparison_fallback(goal)]
       ELSE IF loaded.val.kind # "dict" THEN [exc |-> "none", val |-> _comparison_fallback(goal)]
       ELSE IF ~ComparisonSchemaOk(loaded.val)
            THEN [exc |-> "none", val |-> JDict(loaded.val.map @@ _comparison_fallback(goal).map)]
       ELSE [exc |-> "none", val |-> loaded.val]

\* _generate_comparison_recommendation(goal, ...) when the backend answers
\* `reply`: [exc, val]
_generate_comparison_recommendation(goal, reply) ==
    LET loaded == json_loads(reply)
    IN IF reply.kind = "transport_error" THEN [exc |-> "TransportError", val |-> None]
       ELSE IF loaded.exc = "JSONDecodeError" THEN [exc |-> "none", val |-> _comparison_fallback(goal)]
       ELSE IF ~ComparisonSchemaOk(loaded.val) THEN [exc |-> "none", val |-> _comparison_fallback(goal)]
       ELSE [exc |-> "none", val |-> loaded.val]

DirectFallback ==
    JDict([primary_path         |-> JStr(<<"U","n","a","b","l","e"," ","t","o"," ","p","a","r","s","e"," ","r","e","c","o","m","m","e","n","d","a","t","i","o","n","s",".">>),
           secondary_path       |-> JStr(<<"N","/","A">>),
           reasoning            |-> JStr(<<"L","L","M"," ","r","e","t","u","r","n","e","d"," ","u","n","e","x","p","e","c","t","e","d"," ","f","o","r","m","a","t",".">>),
           immediate_next_steps |-> JList(<<>>),
           resources            |-> JList(<<>>)])

\* A direct-path generator that substitutes the comparison fallback.
_generate_direct_recommendation_wrong_fallback(goal, reply) ==
    LET loaded == json_loads(reply)
    IN IF reply.kind = "transport_error" THEN [exc |-> "TransportError", val |-> None]
       ELSE IF loaded.exc = "JSONDecodeError" THEN [exc |-> "none", val |-> _comparison_fallback(goal)]
       ELSE [exc |-> "none", val |-> loaded.val]

\* _generate_direct_recommendation(goal, ...) when the backend answers
\* `reply`: [exc, val]
_generate_direct_recommendation(goal, reply) ==
    LET loaded == json_loads(reply)
    IN IF reply.kind = "transport_error" THEN [exc |-> "TransportError", val |-> None]
       ELSE IF loaded.exc = "JSONDecodeError" THEN [exc |-> "none", val |-> DirectFallback]
       ELSE [exc |-> "none", val |-> loaded.val]

\* The branch run_recommendation takes: state.decision_type or "direct_path",
\* compared with "comparison".
RecommendationBranch(decision_type) ==
    IF PyOr(decision_type, JStr(DIRECT_PATH)) = JStr(COMPARISON) THEN "comparison" ELSE "direct_path"

\* A run_recommendation that also stores the goal it worked with.
RecommendationUpdate_StoresGoal(recommendations, goal) ==
    [recommendations |-> recommendations, interpreted_goal |-> goal]

\* The fields of the state that run_recommendation updates.
RecommendationUpdate(recommendations, goal) == [recommendations |-> recommendations]

\* run_recommendation(state) when the backend answers `reply`: [exc, state]
run_recommendation(st, reply) ==
    LET goal == PyOr(st.interpreted_goal, st.user_input)
        branch == RecommendationBranch(st.decision_type)
        generated == IF branch = "comparison"
                     THEN _generate_comparison_recommendation(goal, reply)
                     ELSE _generate_direct_recommendation(goal, reply)
    IN IF generated.exc # "none" THEN [exc |-> generated.exc, state |-> st]
       \* print(... recommendations.get('primary_path')) on the direct path
       ELSE IF branch = "direct_path" /\ generated.val.kind # "dict"
            THEN [exc |-> "AttributeError", state |-> st]
       ELSE [exc |-> "none", state |-> model_copy(st, RecommendationUpdate(generated.val, goal))]

(***************************************************************************)
(* Coordinator stage (src/agents/coordinator.py)                           *)
(***************************************************************************)
\* str(v) as an f-string formats it, for the values the model's replies hold
PyStr(v) ==
    CASE v.kind = "str"  -> v.str
      [] v.kind = "null" -> <<"N","o","n","e">>
      [] v.kind = "bool" -> IF v.bool THEN <<"T","r","u","e">> ELSE <<"F","a","l","s","e">>

\* len(v): [exc, val]
PyLen(v) ==
    CASE v.kind = "str"  -> [exc |-> "none", val |-> Len(v.str)]
      [] v.kind = "list" -> [exc |-> "none", val |-> Len(v.items)]
      [] v.kind = "dict" -> [exc |-> "none", val |-> Cardinality(DOMAIN v.map)]
      [] OTHER           -> [exc |-> "TypeError", val |-> 0]

\* v[:n]: [exc, val], val a sequence of values
PySlice(v, n) ==
    CASE v.kind = "list" -> [exc |-> "none", val |-> SubSeq(v.items, 1, Min(n, Len(v.items)))]
      [] v.kind = "str"  -> [exc |-> "none",
                             val |-> [i \in 1..Min(n, Len(v.str)) |-> JStr(<<v.str[i]>>)]]
      [] OTHER           -> [exc |-> "TypeError", val |-> <<>>]

COMPARISON_INTRO == <<"T","h","i","s"," ","i","s"," ","a"," ","c","o","m","p","a","r","i","s","o","n"," ","d","e","c","i","s","i","o","n","."," ","I","n","s","t","e","a","d"," ","o","f"," ","p","r","e","m","a","t","u","r","e","l","y"," ","s","e","l","e","c","t","i","n","g"," ","o","n","e"," ","p","a","t","h",","," ","I"," ","r","e","c","o","m","m","e","n","d"," ","a"," ","s","t","r","u","c","t","u","r","e","d"," ","t","w","o","-","w","e","e","k"," ","e","x","p","l","o","r","a","t","i","o","n"," ","p","l","a","n",":","\n","\n">>

REFLECT_HEADER == <<"A","f","t","e","r"," ","c","o","m","p","l","e","t","i","n","g"," ","b","o","t","h"," ","p","h","a","s","e","s",","," ","r","e","f","l","e","c","t"," ","o","n",":","\n">>

OPTION_A == <<"O","p","t","i","o","n"," ","A">>

OPTION_B == <<"O","p","t","i","o","n"," ","B">>

EXPLORE_THIS_PATH == <<"E","x","p","l","o","r","e"," ","t","h","i","s"," ","p","a","t","h">>

\* The number of decision criteria the response lists at most.
MaxCriteriaShown == 3

\* A week block that falls back to the task's default text for a missing focus.
WeekBlock_WrongDefault(head, e, default_focus) ==
    head \o PyStr(Get(e, "focus", JStr(EXPLORE_THIS_PATH))) \o <<"*","*","\n">>
         \o <<"-"," ">> \o PyStr(Get(e, "task", JStr(EXPLORE_THIS_PATH))) \o <<"\n","\n">>

\* One "**Week n — focus**\n- task\n\n" block of entry e.
WeekBlock(head, e, default_focus) ==
    head \o PyStr(Get(e, "focus", JStr(default_focus))) \o <<"*","*","\n">>
         \o <<"-"," ">> \o PyStr(Get(e, "task", JStr(EXPLORE_THIS_PATH))) \o <<"\n","\n">>

RECURSIVE CriteriaLines(_)
CriteriaLines(cs) ==
    IF cs = <<>> THEN <<>>
    ELSE <<"-"," ">> \o PyStr(Head(cs)) \o <<"\n">> \o CriteriaLines(Tail(cs))

\* The comparison branch of compile_response: [exc, val]
FormatComparison(recs) ==
    LET plan == Get(recs, "exploration_plan", JList(<<>>))
        criteria == Get(recs, "decision_criteria", JList(<<>>))
        suggestion == Get(recs, "final_suggestion", JStr(<<>>))
        n == PyLen(plan)
        shown == PySlice(criteria, MaxCriteriaShown)
    IN IF n.exc # "none" THEN [exc |-> n.exc, val |-> <<>>]
       ELSE IF n.val >= 2 /\ plan.kind = "dict" THEN [exc |-> "KeyError", val |-> <<>>]
       ELSE IF n.val >= 2 /\ (plan.kind = "str" \/ plan.items[1].kind # "dict" \/ plan.items[2].kind # "dict")
            THEN [exc |-> "AttributeError", val |-> <<>>]
       ELSE IF shown.exc # "none" THEN [exc |-> shown.exc, val |-> <<>>]
       ELSE [exc |-> "none",
             val |-> COMPARISON_INTRO
                     \o (IF n.val >= 2
                         THEN WeekBlock(<<"*","*","W","e","e","k"," ","1"," ","U+2014"," ">>, plan.items[1], OPTION_A)
                              \o WeekBlock(<<"*","*","W","e","e","k"," ","2"," ","U+2014"," ">>, plan.items[2], OPTION_B)
                         ELSE <<>>)
                     \o REFLECT_HEADER
                     \o CriteriaLines(shown.val)
                     \o (IF Truthy(suggestion) THEN <<"\n">> \o PyStr(suggestion) ELSE <<>>)]

\* A compile_response whose default for an unset decision_type is "comparison".
CoordinatorBranch_DefaultComparison(decision_type) ==
    IF PyOr(decision_type, JStr(COMPARISON)) = JStr(COMPARISON) THEN "comparison" ELSE "direct_path"

\* The branch compile_response takes: state.decision_type or "direct_path",
\* compared with "comparison".
CoordinatorBranch(decision_type) ==
    IF PyOr(decision_type, JStr(DIRECT_PATH)) = JStr(COMPARISON) THEN "comparison" ELSE "direct_path"

\* A compile_response that synthesises every response with the backend.
CoordinatorInvokesBackend_Always(branch) == TRUE

\* compile_response calls _llm.invoke only in its else-branch.
CoordinatorInvokesBackend(branch) == branch # "comparison"

\* A compile_response that opens its text with the goal.
CoordinatorUpdate_MentionsGoal(response_text, goal) ==
    [final_response |-> JStr(PyStr(goal) \o response_text)]

\* The fields of the state that compile_response updates.
CoordinatorUpdate(response_text, goal) == [final_response |-> JStr(response_text)]

\* A compile_response that swallows a failed backend call and answers with
\* an empty text.
compile_response_swallows_error(st, reply) ==
    LET recs == PyOr(st.recommendations, JDict(<<>>))
        goal == PyOr(st.interpreted_goal, st.user_input)
        branch == CoordinatorBranch(st.decision_type)
        formatted == FormatComparison(recs)
    IN IF branch = "comparison"
       THEN IF formatted.exc # "none" THEN [exc |-> formatted.exc, state |-> st]
            ELSE [exc |-> "none", state |-> model_copy(st, CoordinatorUpdate(formatted.val, goal))]
       ELSE IF reply.kind = "transport_error"
            THEN [exc |-> "none", state |-> model_copy(st, CoordinatorUpdate(<<>>, goal))]
            ELSE [exc |-> "none", state |-> model_copy(st, CoordinatorUpdate(Strip(reply.text), goal))]

\* compile_response(state) when the backend (if called) answers `reply`:
\* [exc, state]
compile_response(st, reply) ==
    LET recs == PyOr(st.recommendations, JDict(<<>>))
        goal == PyOr(st.interpreted_goal, st.user_input)
        branch == CoordinatorBranch(st.decision_type)
        formatted == FormatComparison(recs)
    IN IF branch = "comparison"
       THEN IF formatted.exc # "none" THEN [exc |-> formatted.exc, state |-> st]
            ELSE [exc |-> "none", state |-> model_copy(st, CoordinatorUpdate(formatted.val, goal))]
       ELSE IF reply.kind = "transport_error" THEN [exc |-> "TransportError", state |-> st]
            ELSE [exc |-> "none", state |-> model_copy(st, CoordinatorUpdate(Strip(reply.text), goal))]

(***************************************************************************)
(* Inputs: the student's query and what the backend may answer             *)
(***************************************************************************)
\* The longest exploration_plan and decision_criteria a reply carries.
MaxPlanLen == 2

MaxCriteria == 4

Q_ML_OR_BACKEND == <<"S","h","o","u","l","d"," ","I"," ","d","o"," ","M","L"," ","o","r"," ","b","a","c","k","e","n","d"," ","d","e","v","e","l","o","p","m","e","n","t","?">>

Q_BEGINNER == <<"I","'","m"," ","a"," ","b","e","g","i","n","n","e","r"," ","a","n","d"," ","I"," ","h","a","v","e"," ","l","i","m","i","t","e","d"," ","t","i","m","e">>

Q_FIRST_YEAR == <<"I"," ","a","m"," ","a"," ","f","i","r","s","t"," ","y","e","a","r"," ","s","t","u","d","e","n","t",":"," ","M","L"," ","v","s"," ","w","e","b","?">>

Q_URGENT == <<"U","R","G","E","N","T",":"," ","I"," ","n","e","e","d"," ","a"," ","j","o","b",","," ","w","h","i","c","h"," ","f","i","e","l","d"," ","i","s"," ","f","r","e","e"," ","t","o"," ","l","e","a","r","n","?">>

UserInputs == {Q_ML_OR_BACKEND, Q_BEGINNER, Q_FIRST_YEAR, Q_URGENT}

GOAL_ML_AND_BACKEND == <<"c","h","o","o","s","i","n","g"," ","b","e","t","w","e","e","n"," ","M","L"," ","a","n","d"," ","b","a","c","k","e","n","d">>

GOAL_ML_OR_BACKEND == <<"C","h","o","o","s","e"," ","M","L"," ","o","r"," ","b","a","c","k","e","n","d">>

GOAL_WHICH_BETTER == <<"W","H","I","C","H"," ","p","a","t","h"," ","i","s"," ","B","e","t","t","e","r">>

GOAL_DATA_ENGINEER == <<"b","e","c","o","m","e"," ","a"," ","d","a","t","a"," ","e","n","g","i","n","e","e","r">>

GOAL_COMPARE == <<"C","o","m","p","a","r","e"," ","f","r","o","n","t","e","n","d"," ","v","s","."," ","d","a","t","a"," ","r","o","l","e","s">>

GOAL_EXPLORE == <<"e","x","p","l","o","r","e"," ","c","a","r","e","e","r"," ","o","p","t","i","o","n","s">>

PROSE == <<"S","u","r","e","!"," ","H","e","r","e"," ","i","s"," ","m","y"," ","a","n","s","w","e","r",".">>

GoalChoices ==
    {Absent, None, JStr(GOAL_ML_AND_BACKEND), JStr(GOAL_ML_OR_BACKEND),
     JStr(GOAL_WHICH_BETTER), JStr(GOAL_DATA_ENGINEER), JStr(GOAL_COMPARE), JStr(GOAL_EXPLORE)}

ConfidenceChoices ==
    {Absent, None, JNum(95), JNum(150), JNum(-20), JStr(<<"0",".","9">>), JStr(<<"h","i","g","h">>)}

MissingChoices == {Absent, JList(<<JStr(<<"c","u","r","r","e","n","t"," ","y","e","a","r"," ","o","f"," ","s","t","u","d","y">>)>>), JStr(<<"n","o","t","h","i","n","g">>)}

LlmConstraintChoices == {Absent, JList(<<JStr(<<"b","u","d","g","e","t">>)>>)}

DomainReplies ==
    {TransportError, NonJson(PROSE), JList(<<>>), None}
    \cup {MkDict([interpreted_goal      |-> g,
                  extracted_constraints |-> e,
                  missing_information   |-> m,
                  confidence_score      |-> c]) :
             g \in GoalChoices, e \in LlmConstraintChoices,
             m \in MissingChoices, c \in ConfidenceChoices}

PlanEntryKinds == {"full", "bare", "nondict"}

PlanEntry(k, i) ==
    CASE k = "full" -> JDict([week  |-> JNum(100 * i),
                              focus |-> JStr(<<"P","a","t","h"," ">> \o <<Digits[i + 1]>>),
                              task  |-> JStr(<<"T","r","y"," ","p","r","o","j","e","c","t"," ">> \o <<Digits[i + 1]>>)])
      [] k = "bare" -> JDict([week |-> JNum(100 * i)])
      [] k = "nondict" -> JStr(<<"W","e","e","k"," ">> \o <<Digits[i + 1]>>)

PlanChoices ==
    {None, JStr(<<"a","b">>), JNum(500)}
    \cup {JList([i \in 1..n |-> PlanEntry(k, i)]) : n \in 0..MaxPlanLen, k \in PlanEntryKinds}

CriteriaChoices ==
    {None} \cup {JList([i \in 1..n |-> JStr(<<"Q","u","e","s","t","i","o","n"," ">> \o <<Digits[i + 1]>>)]) : n \in 0..MaxCriteria}

SuggestionChoices == {JStr(<<>>), JStr(<<"P","i","c","k"," ","o","n","e",".">>)}

ComparisonDict(plan, criteria, suggestion) ==
    [strategy          |-> JStr(<<"e","x","p","l","o","r","a","t","i","o","n","_","e","x","p","e","r","i","m","e","n","t">>),
     exploration_plan  |-> plan,
     decision_criteria |-> criteria,
     final_suggestion  |-> suggestion,
     resources         |-> JList(<<JStr(<<"d","o","c","s">>)>>)]

\* A well-formed comparison object with the key k left out.
ComparisonWithout(k) ==
    LET full == ComparisonDict(JList([i \in 1..2 |-> PlanEntry("full", i)]), JList(<<>>), JStr(<<>>))
    IN JDict([j \in required_keys \ {k} |-> full[j]])

DirectDict ==
    [primary_path         |-> JStr(<<"D","a","t","a"," ","e","n","g","i","n","e","e","r","i","n","g">>),
     secondary_path       |-> JStr(<<"B","a","c","k","e","n","d">>),
     reasoning            |-> JStr(<<"I","t"," ","f","i","t","s",".">>),
     immediate_next_steps |-> JList(<<JStr(<<"L","e","a","r","n"," ","S","Q","L">>)>>),
     resources            |-> JList(<<JStr(<<"d","o","c","s">>)>>)]

MalformedReplies == {TransportError, NonJson(PROSE), JList(<<>>), None}

ComparisonReplies ==
    MalformedReplies
    \cup {JDict(ComparisonDict(p, c, s)) : p \in PlanChoices, c \in CriteriaChoices, s \in SuggestionChoices}
    \cup {ComparisonWithout(k) : k \in required_keys}

DirectReplies ==
    MalformedReplies
    \cup {JDict(DirectDict), JDict(<<>>), JDict([primary_path |-> JStr(<<"D","a","t","a"," ","e","n","g","i","n","e","e","r","i","n","g">>)])}

\* What the backend may answer to the prompt of a branch of the
\* Recommendation stage.
RecommendationReplies(branch) == IF branch = "comparison" THEN ComparisonReplies ELSE DirectReplies

CoordinatorReplies == {TransportError, NonJson(<<" "," ","Y","o","u"," ","s","h","o","u","l","d"," ","s","t","a","r","t"," ","w","i","t","h"," ","S","Q","L",".","\n">>), NonJson(<<>>)}

(***************************************************************************)
(* The pipeline (src/graph/workflow.py, src/main.py)                       *)
(***************************************************************************)
\* The edges of the graph: entry point, then the linear flow, then END.
EntryPoint == "domain_reasoning"

\* A graph whose recommendation node is wired straight to END.
Edge_SkipsCoordinator(node) ==
    CASE node = "domain_reasoning" -> "recommendation"
      [] node = "recommendation"   -> "END"
      [] node = "compile_response" -> "END"

Edge(node) ==
    CASE node = "domain_reasoning" -> "recommendation"
      [] node = "recommendation"   -> "compile_response"
      [] node = "compile_response" -> "END"

\* run_assistant(query): app.invoke(AssistantState(user_input=query).model_dump())
Init ==
    /\ pc = EntryPoint
    /\ state \in {AssistantState(q) : q \in UserInputs}
    /\ calls = 0
    /\ executed = <<>>
    /\ raised = "none"
    /\ replies = <<>>
    /\ recBranch = "none"
    /\ coordBranch = "none"

\* result_dict of run_assistant: what app.invoke hands back to its caller,
\* the final state once the graph has reached END and nothing before that
\* or when the call raised.
result_dict == IF pc = "END" THEN state ELSE None

\* The node returned (exc = "none") or raised: the graph follows its edge or
\* the exception leaves app.invoke.
Finish(node, result) ==
    /\ state' = result.state
    /\ raised' = result.exc
    /\ pc' = IF result.exc = "none" THEN Edge(node) ELSE "raised"

\* wrapped(state_dict) of a node whose model_validate fails.
RejectState ==
    /\ raised' = "ValidationError"
    /\ pc' = "raised"
    /\ UNCHANGED <<state, calls, executed, replies, recBranch, coordBranch>>

DomainReasoning ==
    /\ pc = "domain_reasoning"
    /\ IF ~model_validate(state) THEN RejectState
       ELSE \E reply \in DomainReplies :
              /\ calls' = calls + 1
              /\ replies' = Append(replies, reply)
              /\ executed' = Append(executed, "domain_reasoning")
              /\ Finish("domain_reasoning", run_domain_reasoning(state, reply))
              /\ UNCHANGED <<recBranch, coordBranch>>

Recommendation ==
    /\ pc = "recommendation"
    /\ IF ~model_validate(state) THEN RejectState
       ELSE \E reply \in RecommendationReplies(RecommendationBranch(state.decision_type)) :
              /\ calls' = calls + 1
              /\ replies' = Append(replies, reply)
              /\ executed' = Append(executed, "recommendation")
              /\ recBranch' = RecommendationBranch(state.decision_type)
              /\ Finish("recommendation", run_recommendation(state, reply))
              /\ UNCHANGED coordBranch

CompileResponse ==
    /\ pc = "compile_response"
    /\ IF ~model_validate(state) THEN RejectState
       ELSE LET branch == CoordinatorBranch(state.decision_type)
            IN /\ executed' = Append(executed, "compile_response")
               /\ coordBranch' = branch
               /\ UNCHANGED recBranch
               /\ IF CoordinatorInvokesBackend(branch)
                  THEN \E reply \in CoordinatorReplies :
                         /\ calls' = calls + 1
                         /\ replies' = Append(replies, reply)
                         /\ Finish("compile_response", compile_response(state, reply))
                  ELSE /\ UNCHANGED <<calls, replies>>
                       /\ Finish("compile_response", compile_response(state, None))

Next == DomainReasoning \/ Recommendation \/ CompileResponse

Spec == Init /\ [][Next]_vars

(***************************************************************************)
(* Properties                                                              *)
(***************************************************************************)
NoTransportError == \A i \in 1..Len(replies) : replies[i].kind # "transport_error"

RunEnded == pc \in {"END", "raised"}

AllStages == <<"domain_reasoning", "recommendation", "compile_response">>

DomainReasoningDone == Len(executed) >= 1 /\ state.decision_type # None

RecommendationDone == Len(executed) >= 2 /\ state.recommendations # None

\* The reply of the backend to the Domain Reasoning / Recommendation prompt.
DomainReply == replies[1]

RecommendationReply == replies[2]

\* C1: after the Recommendation stage has run with decision_type =
\* "comparison", whatever the backend answered, the stored recommendations
\* has the five required keys and an exploration_plan that is not empty
\* (Python-true: not null, not an empty list, text or object, not zero).
C1_ComparisonRecommendationsComplete ==
    (RecommendationDone /\ state.decision_type = JStr(COMPARISON)) =>
        /\ state.recommendations.kind = "dict"
        /\ required_keys \subseteq DOMAIN state.recommendations.map
        /\ Truthy(state.recommendations.map["exploration_plan"])

\* The backend answered the comparison prompt with an object whose
\* exploration_plan is empty, and the fallback was stored.
C1_Witness ==
    /\ RecommendationDone
    /\ state.decision_type = JStr(COMPARISON)
    /\ RecommendationReply.kind = "dict"
    /\ required_keys \subseteq DOMAIN RecommendationReply.map
    /\ RecommendationReply.map["exploration_plan"] = JList(<<>>)
    /\ state.recommendations = _comparison_fallback(<<>>)

\* C2: a run whose backend replies contain no transport error raises no
\* exception and, once it has ended, has final_response set to a string.
C2_MalformedContentRecovered ==
    NoTransportError =>
        /\ raised = "none"
        /\ pc # "raised"
        /\ pc = "END" => state.final_response.kind = "str"

\* C3: a Coordinator step taken with decision_type = "comparison" leaves
\* the backend call count unchanged, and when it completes it has set
\* final_response to a string.
C3_ComparisonCoordinatorNoBackendCall ==
    [][(pc = "compile_response" /\ state.decision_type = JStr(COMPARISON)) =>
          /\ calls' = calls
          /\ pc' = "END" => state'.final_response.kind = "str"]_vars

\* A comparison run that ended with a response after two backend calls.
C3_Witness ==
    /\ pc = "END"
    /\ state.decision_type = JStr(COMPARISON)
    /\ state.final_response.kind = "str"
    /\ coordBranch = "comparison"
    /\ calls = 2

\* C4: a run that has ended, whatever the backend returned (no transport
\* error), has executed Domain Reasoning, Recommendation and Coordinator
\* exactly once each, in that order.
C4_AllStagesOnceInOrder ==
    (RunEnded /\ NoTransportError) => executed = AllStages

\* The stage the claim names as the producer of each optional field.
ProducerOf ==
    [interpreted_goal      |-> "domain_reasoning",
     extracted_constraints |-> "domain_reasoning",
     missing_information   |-> "domain_reasoning",
     confidence_score      |-> "domain_reasoning",
     decision_type         |-> "domain_reasoning",
     recommendations       |-> "recommendation",
     final_response        |-> "compile_response"]

\* C5: every step changes an optional field only in the stage that is its
\* one producer, never changes a field that was already set, and never
\* changes user_input.
C5_SingleProducerNoOverwrite ==
    [][/\ \A f \in OptionalFields :
             /\ state'[f] # state[f] => pc = ProducerOf[f]
             /\ state[f] # None => state'[f] = state[f]
       /\ state'.user_input = state.user_input]_vars

\* A finished run in which every optional field has been set.
C5_Witness ==
    /\ pc = "END"
    /\ \A f \in OptionalFields : state[f] # None

\* C6: the Coordinator takes the comparison branch iff the Recommendation
\* stage did, and the two stages' branch tests agree on every value of
\* decision_type, an unset one being direct_path for both.
C6_SameBranch ==
    /\ coordBranch # "none" => coordBranch = recBranch
    /\ \A dt \in {None, JStr(COMPARISON), JStr(DIRECT_PATH), JStr(<<>>)} :
          RecommendationBranch(dt) = CoordinatorBranch(dt)
    /\ RecommendationBranch(None) = "direct_path"
    /\ CoordinatorBranch(None) = "direct_path"

\* Both stages ran on the comparison branch.
C6_Witness ==
    /\ recBranch = "comparison"
    /\ coordBranch = "comparison"
    /\ pc = "END"

\* C7 as stated: the stored recommendations has the five keys of the schema
\* of the state's decision_type, for every backend reply.
C7_RecommendationsMatchSchema ==
    RecommendationDone =>
        IF state.decision_type = JStr(COMPARISON)
        THEN required_keys \subseteq DOMAIN state.recommendations.map
        ELSE direct_keys \subseteq DOMAIN state.recommendations.map

\* C7 amended: the stored recommendations has the five comparison keys when
\* decision_type is "comparison"; when it is "direct_path" it has the five
\* direct-path keys if the reply was not parseable JSON, and is otherwise
\* the reply's parsed mapping unchanged.
C7_SchemaOnlyValidatedForComparison ==
    RecommendationDone =>
        IF state.decision_type = JStr(COMPARISON)
        THEN required_keys \subseteq DOMAIN state.recommendations.map
        ELSE /\ state.decision_type = JStr(DIRECT_PATH)
             /\ state.recommendations.kind = "dict"
             /\ RecommendationReply.kind = "nonjson" =>
                    direct_keys \subseteq DOMAIN state.recommendations.map
             /\ RecommendationReply.kind # "nonjson" =>
                    state.recommendations = RecommendationReply

\* A direct-path reply that is a mapping without the keys was stored as it is.
C7_Witness ==
    /\ RecommendationDone
    /\ state.decision_type = JStr(DIRECT_PATH)
    /\ state.recommendations = JDict(<<>>)

\* C8: a confidence_score that is set lies in 0.0 .. 1.0.
C8_ConfidenceInUnitRange ==
    state.confidence_score # None =>
        (state.confidence_score.num >= 0 /\ state.confidence_score.num <= 100)

\* The case of C9 and C10: the query "Should I do ML or backend
\* development?", a Domain Reasoning reply whose interpreted_goal is
\* "choosing between ML and backend", and the stage has returned.
MlOrBackendCase ==
    /\ DomainReasoningDone
    /\ state.user_input = JStr(Q_ML_OR_BACKEND)
    /\ DomainReply.kind = "dict"
    /\ "interpreted_goal" \in DOMAIN DomainReply.map
    /\ DomainReply.map["interpreted_goal"] = JStr(GOAL_ML_AND_BACKEND)

ReportedConfidence95 ==
    /\ "confidence_score" \in DOMAIN DomainReply.map
    /\ DomainReply.map["confidence_score"] = JNum(95)

\* C9 as stated: in that case decision_type is "comparison".
C9_ClassifiedComparison == MlOrBackendCase => state.decision_type = JStr(COMPARISON)

\* C9 amended: in that case decision_type is "direct_path", because the
\* lower-cased interpreted goal contains none of the comparison substrings
\* (the " or " is in the query, which is not what is classified).
C9_ClassifiedDirectPath ==
    /\ MlOrBackendCase => state.decision_type = JStr(DIRECT_PATH)
    /\ ~ContainsAny(Lower(GOAL_ML_AND_BACKEND), comparison_keywords)
    /\ Contains(Lower(Q_ML_OR_BACKEND), comparison_keywords[1])

C9_Witness == MlOrBackendCase /\ pc = "recommendation"

\* C10 as stated: with a reported confidence of 0.95 the stored
\* confidence_score is 0.67.
C10_ConfidenceCapped ==
    (MlOrBackendCase /\ ReportedConfidence95) => state.confidence_score = JNum(67)

\* C10 amended: the query has no background-context keyword, but the goal
\* is classified direct_path, so the cap is not applied and the stored
\* confidence_score is the reported 0.95.
C10_ConfidenceUnchanged ==
    /\ (MlOrBackendCase /\ ReportedConfidence95) => state.confidence_score = JNum(95)
    /\ ~_has_background_context(Q_ML_OR_BACKEND)

C10_Witness == MlOrBackendCase /\ ReportedConfidence95 /\ pc = "END"

\* The confidence c the backend reported, as run_domain_reasoning reads it:
\* the reply's confidence_score as a float, 0.5 when the reply has none, and
\* 0.3 when the reply is not JSON.
ReportedConfidence ==
    IF DomainReply.kind = "nonjson" THEN 30
    ELSE PyFloat(Get(DomainReply, "confidence_score", JNum(50))).val

\* The background-context indicators the claim is about occur in the
\* lower-cased user_input.
HasIndicator == \E i \in 1..Len(context_keywords) : Contains(Lower(state.user_input.str), context_keywords[i])

\* The Domain Reasoning stage has just returned.
DomainReasoningReturned == DomainReasoningDone /\ Len(executed) = 1

\* C11: the confidence_score the Domain Reasoning stage stores is
\* min(c, 0.67) when decision_type is "comparison" and the lower-cased
\* user_input has no background-context indicator, and is exactly c
\* otherwise; in particular a comparison whose user_input contains
\* "first year" keeps the reported value.
C11_ConfidenceAdjustment ==
    DomainReasoningReturned =>
        /\ state.confidence_score =
             JNum(IF state.decision_type = JStr(COMPARISON) /\ ~HasIndicator
                  THEN (IF ReportedConfidence <= 67 THEN ReportedConfidence ELSE 67)
                  ELSE ReportedConfidence)
        /\ (/\ state.decision_type = JStr(COMPARISON)
            /\ Contains(Lower(state.user_input.str), <<"f","i","r","s","t"," ","y","e","a","r">>)) =>
              state.confidence_score = JNum(ReportedConfidence)

\* A comparison without indicator whose reported 0.95 was capped to 0.67.
C11_Witness ==
    /\ DomainReasoningReturned
    /\ state.decision_type = JStr(COMPARISON)
    /\ ~HasIndicator
    /\ ReportedConfidence = 95
    /\ state.confidence_score = JNum(67)

\* A comparison whose user_input contains "first year" kept the reported 0.95.
C11_WitnessFirstYear ==
    /\ DomainReasoningReturned
    /\ state.decision_type = JStr(COMPARISON)
    /\ state.user_input = JStr(Q_FIRST_YEAR)
    /\ ReportedConfidence = 95
    /\ state.confidence_score = JNum(95)

\* The categories stored in extracted_constraints, as a set of texts.
StoredConstraints ==
    {state.extracted_constraints.items[i].str : i \in 1..Len(state.extracted_constraints.items)}

\* C12: the extracted_constraints the Domain Reasoning stage stores holds a
\* category exactly once iff one of the category's trigger phrases is a
\* substring of the lower-cased user_input, and nothing else, so it depends
\* on user_input alone and never on the backend's own constraint list; for
\* "I'm a beginner and I have limited time" it is exactly {experience, time}.
C12_ConstraintsFromUserInputOnly ==
    DomainReasoningReturned =>
        /\ state.extracted_constraints.kind = "list"
        /\ \A i \in 1..Len(state.extracted_constraints.items) :
              state.extracted_constraints.items[i].kind = "str"
        /\ Cardinality(StoredConstraints) = Len(state.extracted_constraints.items)
        /\ StoredConstraints \subseteq {CategoryText[c] : c \in DOMAIN CategoryText}
        /\ \A c \in DOMAIN explicit_keywords :
              (CategoryText[c] \in StoredConstraints) <=>
                 (\E k \in 1..Len(explicit_keywords[c]) :
                     Contains(Lower(state.user_input.str), explicit_keywords[c][k]))
        /\ state.user_input = JStr(Q_BEGINNER) =>
              StoredConstraints = {<<"e","x","p","e","r","i","e","n","c","e">>, <<"t","i","m","e">>}

\* The backend listed "budget" for the beginner's query, and the stage
\* stored experience and time only.
C12_Witness ==
    /\ DomainReasoningReturned
    /\ state.user_input = JStr(Q_BEGINNER)
    /\ DomainReply.kind = "dict"
    /\ "extracted_constraints" \in DOMAIN DomainReply.map
    /\ DomainReply.map["extracted_constraints"] = JList(<<JStr(<<"b","u","d","g","e","t">>)>>)
    /\ StoredConstraints = {<<"e","x","p","e","r","i","e","n","c","e">>, <<"t","i","m","e">>}

\* C13: when the Domain Reasoning reply is not parseable JSON the stage
\* does not raise: it stores the fallback goal, the one-entry
\* missing_information, confidence_score 0.3 and decision_type
\* "direct_path", and the run goes on to the Recommendation stage, which
\* accepts that state and is the next stage to execute.
C13_DomainParseFailureRecovered ==
    (Len(replies) >= 1 /\ DomainReply.kind = "nonjson") =>
        /\ state.interpreted_goal = JStr(<<"U","n","a","b","l","e"," ","t","o"," ","p","a","r","s","e"," ","s","t","u","d","e","n","t"," ","g","o","a","l",".">>)
        /\ state.missing_information = JList(<<JStr(<<"P","l","e","a","s","e"," ","r","e","s","t","a","t","e"," ","y","o","u","r"," ","q","u","e","s","t","i","o","n"," ","c","l","e","a","r","l","y",".">>)>>)
        /\ state.confidence_score = JNum(30)
        /\ state.decision_type = JStr(<<"d","i","r","e","c","t","_","p","a","t","h">>)
        /\ model_validate(state)
        /\ Len(replies) = 1 => (pc = "recommendation" /\ raised = "none" /\ executed = <<"domain_reasoning">>)
        /\ Len(replies) >= 2 => (Len(executed) >= 2 /\ executed[2] = "recommendation")

\* After a non-JSON Domain Reasoning reply the Recommendation stage ran and
\* stored its recommendations.
C13_Witness ==
    /\ Len(replies) >= 2
    /\ DomainReply.kind = "nonjson"
    /\ executed[2] = "recommendation"
    /\ state.recommendations # None

\* The direct-path case of a Recommendation reply that is not JSON.
DirectParseFailure ==
    /\ RecommendationDone
    /\ state.decision_type = JStr(DIRECT_PATH)
    /\ RecommendationReply.kind = "nonjson"

\* C14: on the direct_path branch, a Recommendation reply that is not
\* parseable JSON leaves recommendations with primary_path "Unable to parse
\* recommendations.", secondary_path "N/A", and empty immediate_next_steps
\* and resources.
C14_DirectParseFailureFallback ==
    DirectParseFailure =>
        /\ state.recommendations.kind = "dict"
        /\ {"primary_path", "secondary_path", "immediate_next_steps", "resources"}
              \subseteq DOMAIN state.recommendations.map
        /\ state.recommendations.map["primary_path"] = JStr(<<"U","n","a","b","l","e"," ","t","o"," ","p","a","r","s","e"," ","r","e","c","o","m","m","e","n","d","a","t","i","o","n","s",".">>)
        /\ state.recommendations.map["secondary_path"] = JStr(<<"N","/","A">>)
        /\ state.recommendations.map["immediate_next_steps"] = JList(<<>>)
        /\ state.recommendations.map["resources"] = JList(<<>>)

C14_Witness == DirectParseFailure /\ pc = "compile_response"

\* The step is a backend call that fails with a transport error.
TransportErrorStep ==
    /\ Len(replies') = Len(replies) + 1
    /\ replies'[Len(replies')].kind = "transport_error"

\* C15: a transport error raised by the backend in any stage is not
\* caught: the step ends the run in failure at that stage with the state
\* as it was, no step follows a failure (no later stage runs), and the
\* caller receives neither a final_response nor any other result.
C15_TransportErrorIsFatal ==
    [][/\ pc # "raised"
       /\ TransportErrorStep =>
            /\ pc' = "raised"
            /\ raised' = "TransportError"
            /\ executed' = Append(executed, pc)
            /\ state' = state
            /\ state'.final_response = None
            /\ result_dict' = None]_vars

\* The backend failed in the Coordinator stage, after the two other stages
\* had stored their results; nothing reached the caller.
C15_Witness ==
    /\ pc = "raised"
    /\ raised = "TransportError"
    /\ executed = AllStages
    /\ replies[3].kind = "transport_error"
    /\ state.recommendations # None
    /\ state.final_response = None
    /\ result_dict = None

\* Other values of user_input and interpreted_goal a Coordinator run may see.
OtherGoals == {None, JStr(GOAL_ML_OR_BACKEND), JStr(GOAL_DATA_ENGINEER)}

\* C16: on the comparison branch the Coordinator's text depends on the
\* recommendations only: a second Coordinator run on a state with the same
\* recommendations and decision_type "comparison", but any other user_input
\* and interpreted_goal and any backend behaviour, returns the final_response
\* this run has produced.
C16_ComparisonResponseDeterministic ==
    (pc = "END" /\ state.decision_type = JStr(COMPARISON)) =>
        \A q \in UserInputs, g \in OtherGoals, reply \in CoordinatorReplies :
            LET other == [state EXCEPT !.user_input = JStr(q),
                                       !.interpreted_goal = g,
                                       !.final_response = None]
                second == compile_response(other, reply)
            IN /\ second.exc = "none"
               /\ second.state.final_response = state.final_response

\* A finished comparison run whose query and goal differ from those of the
\* second runs it is compared with.
C16_Witness ==
    /\ pc = "END"
    /\ state.decision_type = JStr(COMPARISON)
    /\ state.user_input = JStr(Q_FIRST_YEAR)
    /\ state.interpreted_goal = JStr(GOAL_WHICH_BETTER)
    /\ state.final_response.kind = "str"
    /\ state.recommendations # _comparison_fallback(<<>>)

\* C17: a finished comparison run has an exploration_plan of exactly two
\* entries, and its final_response carries the Week 1 and the Week 2 block.
C17_TwoWeekPlanAtEnd ==
    (pc = "END" /\ state.decision_type = JStr(COMPARISON)) =>
        /\ state.recommendations.map["exploration_plan"].kind = "list"
        /\ Len(state.recommendations.map["exploration_plan"].items) = 2
        /\ Contains(state.final_response.str, <<"*","*","W","e","e","k"," ","1"," ","U+2014"," ">>)
        /\ Contains(state.final_response.str, <<"*","*","W","e","e","k"," ","2"," ","U+2014"," ">>)

\* The one fallback object of the comparison generator.
TheComparisonFallback == _comparison_fallback(JStr(<<>>))

\* The reply is a mapping with the five required keys and an
\* exploration_plan that is not empty.
ReplyIsValidComparison ==
    /\ RecommendationReply.kind = "dict"
    /\ {"strategy", "exploration_plan", "decision_criteria", "final_suggestion", "resources"}
          \subseteq DOMAIN RecommendationReply.map
    /\ Truthy(RecommendationReply.map["exploration_plan"])

\* C18: what the comparison generator returns is the reply's parsed mapping
\* unchanged when that is a valid comparison mapping, and otherwise (parse
\* failure, wrong type, missing key, empty plan) the one fallback object,
\* which is the same for every goal.
C18_ParsedMappingOrFallback ==
    /\ (RecommendationDone /\ state.decision_type = JStr(COMPARISON)) =>
          state.recommendations =
             (IF ReplyIsValidComparison THEN RecommendationReply ELSE TheComparisonFallback)
    /\ \A g \in GoalChoices \cup {JStr(q) : q \in UserInputs} :
          _comparison_fallback(g) = TheComparisonFallback

\* A mapping that lacks a required key was answered and the fallback stored.
C18_Witness ==
    /\ RecommendationDone
    /\ state.decision_type = JStr(COMPARISON)
    /\ RecommendationReply.kind = "dict"
    /\ "resources" \notin DOMAIN RecommendationReply.map
    /\ state.recommendations = TheComparisonFallback

\* The interpreted_goal the backend returned, as text: the fallback goal
\* for a reply that is not JSON, and the empty text for a reply without
\* the key.
ReturnedGoal ==
    IF DomainReply.kind = "nonjson" THEN <<"U","n","a","b","l","e"," ","t","o"," ","p","a","r","s","e"," ","s","t","u","d","e","n","t"," ","g","o","a","l",".">>
    ELSE IF "interpreted_goal" \in DOMAIN DomainReply.map
         THEN DomainReply.map["interpreted_goal"].str
         ELSE <<>>

ClaimedKeywords == {<<" ","o","r"," ">>, <<"v","s">>, <<"w","h","i","c","h">>, <<"b","e","t","t","e","r">>, <<"c","o","m","p","a","r","e">>}

\* C19: the Domain Reasoning stage sets decision_type to "comparison" iff
\* the lower-cased interpreted_goal of the reply (not the user_input)
\* contains one of " or ", "vs", "which", "better", "compare", and to
\* "direct_path" otherwise, also when the reply has no interpreted_goal;
\* decision_type never has another value.
C19_ClassificationRule ==
    /\ state.decision_type \in {None, JStr(<<"c","o","m","p","a","r","i","s","o","n">>), JStr(<<"d","i","r","e","c","t","_","p","a","t","h">>)}
    /\ DomainReasoningReturned =>
          state.decision_type =
             (IF \E k \in ClaimedKeywords : Contains(Lower(ReturnedGoal), k)
              THEN JStr(<<"c","o","m","p","a","r","i","s","o","n">>)
              ELSE JStr(<<"d","i","r","e","c","t","_","p","a","t","h">>))

\* The query contains " or ", the returned goal contains "or" only inside a
\* word, and the stage chose direct_path.
C19_Witness ==
    /\ DomainReasoningReturned
    /\ state.user_input = JStr(Q_ML_OR_BACKEND)
    /\ state.interpreted_goal = JStr(GOAL_EXPLORE)
    /\ state.decision_type = JStr(DIRECT_PATH)

\* An upper-case keyword in the returned goal made the stage choose comparison.
C19_WitnessComparison ==
    /\ DomainReasoningReturned
    /\ state.interpreted_goal = JStr(GOAL_WHICH_BETTER)
    /\ state.decision_type = JStr(COMPARISON)

\* The text of key k of plan entry e, or the default when e has no such key.
EntryText(e, k, default) == IF k \in DOMAIN e.map THEN e.map[k].str ELSE default

\* The bullet of the i-th decision criterion, if there is one.
CriterionBullet(criteria, i) ==
    IF i <= Len(criteria) THEN <<"-"," ">> \o criteria[i].str \o <<"\n">> ELSE <<>>

\* The text the claim describes for the recommendations recs.
ClaimedComparisonText(recs) ==
    LET plan == recs["exploration_plan"].items
        criteria == recs["decision_criteria"].items
        suggestion == recs["final_suggestion"].str
    IN <<"T","h","i","s"," ","i","s"," ","a"," ","c","o","m","p","a","r","i","s","o","n"," ","d","e","c","i","s","i","o","n","."," ","I","n","s","t","e","a","d"," ","o","f"," ","p","r","e","m","a","t","u","r","e","l","y"," ","s","e","l","e","c","t","i","n","g"," ","o","n","e"," ","p","a","t","h",","," ","I"," ","r","e","c","o","m","m","e","n","d"," ","a"," ","s","t","r","u","c","t","u","r","e","d"," ","t","w","o","-","w","e","e","k"," ","e","x","p","l","o","r","a","t","i","o","n"," ","p","l","a","n",":","\n","\n">>
       \o (IF Len(plan) >= 2
           THEN <<"*","*","W","e","e","k"," ","1"," ","U+2014"," ">> \o EntryText(plan[1], "focus", <<"O","p","t","i","o","n"," ","A">>) \o <<"*","*","\n","-"," ">>
                   \o EntryText(plan[1], "task", <<"E","x","p","l","o","r","e"," ","t","h","i","s"," ","p","a","t","h">>) \o <<"\n","\n">>
                \o <<"*","*","W","e","e","k"," ","2"," ","U+2014"," ">> \o EntryText(plan[2], "focus", <<"O","p","t","i","o","n"," ","B">>) \o <<"*","*","\n","-"," ">>
                   \o EntryText(plan[2], "task", <<"E","x","p","l","o","r","e"," ","t","h","i","s"," ","p","a","t","h">>) \o <<"\n","\n">>
           ELSE <<>>)
       \o <<"A","f","t","e","r"," ","c","o","m","p","l","e","t","i","n","g"," ","b","o","t","h"," ","p","h","a","s","e","s",","," ","r","e","f","l","e","c","t"," ","o","n",":","\n">>
       \o CriterionBullet(criteria, 1) \o CriterionBullet(criteria, 2) \o CriterionBullet(criteria, 3)
       \o (IF suggestion # <<>> THEN <<"\n">> \o suggestion ELSE <<>>)

\* C20: the final_response of a finished comparison run is the fixed
\* introduction, then the Week 1 and Week 2 blocks iff exploration_plan has
\* at least two entries (from entries 0 and 1, with the default texts for
\* an absent focus or task), then the reflection header with at most the
\* first three decision_criteria, then final_suggestion iff it is not empty.
C20_ComparisonTextAssembly ==
    (/\ pc = "END"
     /\ state.decision_type = JStr(COMPARISON)
     /\ state.recommendations.map["exploration_plan"].kind = "list") =>
        state.final_response = JStr(ClaimedComparisonText(state.recommendations.map))

\* A finished comparison run whose plan entries have neither focus nor
\* task, with four criteria and a suggestion.
C20_Witness ==
    /\ pc = "END"
    /\ state.decision_type = JStr(COMPARISON)
    /\ state.recommendations.map["exploration_plan"] = JList(<<PlanEntry("bare", 1), PlanEntry("bare", 2)>>)
    /\ Len(state.recommendations.map["decision_criteria"].items) = 4
    /\ state.recommendations.map["final_suggestion"] # JStr(<<>>)
    /\ state.final_response.kind = "str"

\* A finished comparison run whose plan has one entry, and no week block.
C20_WitnessShortPlan ==
    /\ pc = "END"
    /\ state.decision_type = JStr(COMPARISON)
    /\ Len(state.recommendations.map["exploration_plan"].items) = 1
    /\ ~Contains(state.final_response.str, <<"*","*","W","e","e","k">>)

\* The number of backend calls made by the stages executed so far, when
\* each makes its one call: the Coordinator makes none on the comparison
\* branch.
CallsOf(stages) ==
    Cardinality({i \in 1..Len(stages) :
                    ~(stages[i] = "compile_response" /\ state.decision_type = JStr(COMPARISON))})

\* C21: every step makes at most one backend call and has its reply when
\* it ends, so no stage calls twice or retries and a stage's call is over
\* before the next stage starts; every stage that has executed has made
\* exactly its one call (none for the Coordinator of a comparison), and a
\* run that reaches END has made exactly two calls when decision_type is
\* "comparison" and exactly three when it is "direct_path".
C21_OneCallPerStage ==
    [][/\ calls' \in {calls, calls + 1}
       /\ Len(executed') \in {Len(executed), Len(executed) + 1}
       /\ calls' - calls <= Len(executed') - Len(executed)
       /\ Len(replies') = calls'
       /\ calls' = CallsOf(executed)'
       /\ pc' = "END" =>
            /\ executed' = AllStages
            /\ state'.decision_type \in {JStr(COMPARISON), JStr(DIRECT_PATH)}
            /\ calls' = (IF state'.decision_type = JStr(COMPARISON) THEN 2 ELSE 3)]_vars

\* A direct_path run that ended after three calls although its
\* Recommendation reply was not JSON: the parse failure caused no retry.
C21_Witness ==
    /\ pc = "END"
    /\ state.decision_type = JStr(DIRECT_PATH)
    /\ RecommendationReply.kind = "nonjson"
    /\ calls = 3
    /\ Len(replies) = 3

\* A comparison run that ended after two calls although its Recommendation
\* reply failed the validation.
C21_WitnessComparison ==
    /\ pc = "END"
    /\ state.decision_type = JStr(COMPARISON)
    /\ ~ReplyIsValidComparison
    /\ calls = 2
    /\ Len(replies) = 2

====
